---- MODULE Spec2Model ----
(***************************************************************************)
(* A model of weave-endpoint (src/src/processWeave.js): the resolution of  *)
(* a request to a source manifest, the fetch-once cache of manifest text,   *)
(* the structural validation of the parsed manifest and the query-driven    *)
(* mutation of the DaemonSet it holds.                                      *)
(*                                                                          *)
(* Encodings.  A string of decimal digits (a captured \d group) is a        *)
(* sequence of digits, so that parseInt is a computation.  An optional      *)
(* JavaScript property is a sequence of length 0 (undefined/absent) or 1.   *)
(* Manifest text is named by a string; yamlLoadAll maps a text to what      *)
(* js-yaml's loadAll produces for it; the empty text is "".                 *)
(***************************************************************************)
EXTENDS Integers, Sequences, FiniteSets, TLC

VARIABLES cacheMap, req, fetchCount, retrieved, kv, mut

vars == <<cacheMap, req, fetchCount, retrieved, kv, mut>>

(***************************************************************************)
(* Small helpers for optional values.                                       *)
(***************************************************************************)
None == <<>>

Some(x) == <<x>>

IsSome(o) == Len(o) > 0

(***************************************************************************)
(* VersionResolver                                                          *)
(***************************************************************************)
Digits == 0 .. 9

\* (\d{1}) in both url patterns and both report patterns
MajorStrings == { <<d>> : d \in Digits }

\* (\d{1,2}) in both url patterns and both report patterns
MinorStrings == { <<d>> : d \in Digits } \cup { <<d, e>> : d, e \in Digits }

RECURSIVE parseInt(_)
parseInt(s) == IF Len(s) = 0 THEN 0
               ELSE 10 * parseInt(SubSeq(s, 1, Len(s) - 1)) + s[Len(s)]

weaveSourceUrl(fileName) == fileName

\* a plausible slip: the table kept in ascending order of threshold
manifestMapAscending ==
  << [k8sVersion |-> <<8>>,    result |-> weaveSourceUrl("weave-daemonset-k8s-1.8.yaml")],
     [k8sVersion |-> <<9>>,    result |-> weaveSourceUrl("weave-daemonset-k8s-1.9.yaml")],
     [k8sVersion |-> <<1, 1>>, result |-> weaveSourceUrl("weave-daemonset-k8s-1.11.yaml")] >>

manifestMap ==
  << [k8sVersion |-> <<1, 1>>, result |-> weaveSourceUrl("weave-daemonset-k8s-1.11.yaml")],
     [k8sVersion |-> <<9>>,    result |-> weaveSourceUrl("weave-daemonset-k8s-1.9.yaml")],
     [k8sVersion |-> <<8>>,    result |-> weaveSourceUrl("weave-daemonset-k8s-1.8.yaml")] >>

ManifestUrls == { manifestMap[i].result : i \in DOMAIN manifestMap }

NotMatched == [matched |-> FALSE, manifestUrl |-> None]

\* Array.prototype.find over manifestMap: the first record the test accepts
FindRecord(minor) ==
  LET hits == { i \in DOMAIN manifestMap :
                  parseInt(minor) >= parseInt(manifestMap[i].k8sVersion) }
  IN  IF hits = {} THEN None
      ELSE Some(manifestMap[CHOOSE i \in hits : \A j \in hits : i <= j])

\* a plausible slip: the minor versions compared as text (lexically)
LexLeq(a, b) ==
  \/ \E k \in 1 .. Len(a) : /\ k <= Len(b)
                            /\ \A j \in 1 .. (k - 1) : a[j] = b[j]
                            /\ a[k] < b[k]
  \/ /\ Len(a) <= Len(b)
     /\ \A j \in 1 .. Len(a) : a[j] = b[j]

chooseWeaveManifestLexical(kubeVersion) ==
  IF kubeVersion.major # <<1>> THEN NotMatched
  ELSE LET hits == { i \in DOMAIN manifestMap :
                       LexLeq(manifestMap[i].k8sVersion, kubeVersion.minor) }
       IN  IF hits = {} THEN NotMatched
           ELSE [matched |-> TRUE,
                 manifestUrl |->
                   Some(manifestMap[CHOOSE i \in hits : \A j \in hits : i <= j].result)]

\* a plausible slip: the older code, which did not look at the major version
chooseWeaveManifestAnyMajor(kubeVersion) ==
  LET record == FindRecord(kubeVersion.minor)
  IN  IF IsSome(record)
      THEN [matched |-> TRUE, manifestUrl |-> Some(record[1].result)]
      ELSE NotMatched

chooseWeaveManifest(kubeVersion) ==
  IF kubeVersion.major # <<1>> THEN NotMatched
  ELSE LET record == FindRecord(kubeVersion.minor)
       IN  IF IsSome(record)
           THEN [matched |-> TRUE, manifestUrl |-> Some(record[1].result)]
           ELSE NotMatched

\* The decoded `kubectl version` report, seen through the two patterns of
\* decodeK8sVersionParam: what pattern1 (GitVersion:"vM.mm...") captures, if
\* it matches, and what pattern2 (Client Version: vM.mm...) captures.
Versions == [major : MajorStrings, minor : MinorStrings]

decodeK8sVersionParam(decoded) ==
  IF IsSome(decoded.gitVersion)
  THEN chooseWeaveManifest(decoded.gitVersion[1])
  ELSE IF IsSome(decoded.clientVersion)
       THEN chooseWeaveManifest(decoded.clientVersion[1])
       ELSE NotMatched

\* A request url seen through the two patterns of parseWeaveUrl:
\*   shape "version": /k8s/vM.mm/net.yaml      (pattern1, tried first)
\*   shape "report":  /k8s/net?k8s-version=... (pattern2)
\*   shape "other":   anything else under /k8s/
parseWeaveUrl(url) ==
  IF url.shape = "version"
  THEN chooseWeaveManifest(url.version)
  ELSE IF url.shape = "report"
       THEN decodeK8sVersionParam(url.report)
       ELSE NotMatched

(***************************************************************************)
(* The parsed manifest.                                                     *)
(*   document:  [isMapping, items]    items: optional ItemsValue            *)
(*   ItemsValue: [tag, elems]   tag "seq" (an array), "falsy" (null, 0, '', *)
(*               false) or "other" (a truthy value that is no array)        *)
(*   item:      [tag, kind, name, podSpec]   tag "mapping", "scalar", "null"*)
(*   podSpec (spec.template.spec): optional [containers, initContainers,    *)
(*               securityContext]                                           *)
(*   container: [name, image, env]    image, env optional                   *)
(*   env entry: [name, value, valueFrom]   value, valueFrom optional        *)
(* An image reference and a parameter key are sequences of tokens.          *)
(***************************************************************************)
Entry(n, v, vf) == [name |-> n, value |-> v, valueFrom |-> vf]

SecretKeyRef(k, n) == [secretKeyRef |-> [key |-> k, name |-> n]]

Container(n, img, e) == [name |-> n, image |-> img, env |-> e]

PodSpec(cs, ics, sc) == [containers |-> cs, initContainers |-> ics, securityContext |-> sc]

Item(t, k, n, ps) == [tag |-> t, kind |-> k, name |-> n, podSpec |-> ps]

\* a work state of the mutation pass: the target and whether a TypeError
\* was raised by a directive
Ok(ds) == [ds |-> ds, raised |-> FALSE]

Raise(ds) == [ds |-> ds, raised |-> TRUE]

\* JavaScript truthiness of a string
Truthy(str) == str # ""

(***************************************************************************)
(* upsertEnvVar(envvararray, element): returns the new array.               *)
(***************************************************************************)
FindIndex(arr, n) ==
  LET hits == { i \in DOMAIN arr : arr[i].name = n }
  IN  IF hits = {} THEN 0 ELSE CHOOSE i \in hits : \A j \in hits : i <= j

\* a plausible slip: the older code, which pushed without looking for the name
upsertEnvVarPush(envvararray, element) == Append(envvararray, element)

\* a plausible slip: a new entry is written over the last slot of the array
upsertEnvVarLastSlot(envvararray, element) ==
  IF FindIndex(envvararray, element.name) = 0 /\ Len(envvararray) > 0
  THEN [envvararray EXCEPT ![Len(envvararray)] = element]
  ELSE Append(envvararray, element)

upsertEnvVar(envvararray, element) ==
  LET existingIndex == FindIndex(envvararray, element.name)
  IN  IF existingIndex # 0
      THEN LET e0 == envvararray[existingIndex]
               e1 == IF IsSome(element.valueFrom)
                     THEN [e0 EXCEPT !.value = None, !.valueFrom = element.valueFrom]
                     ELSE e0
               e2 == IF IsSome(element.value) /\ Truthy(element.value[1])
                     THEN [e1 EXCEPT !.valueFrom = None, !.value = element.value]
                     ELSE e1
           IN  [envvararray EXCEPT ![existingIndex] = e2]
      ELSE Append(envvararray, element)

allowedEnvVars ==
  << "CHECKPOINT_DISABLE", "CONN_LIMIT", "HAIRPIN_MODE", "IPALLOC_RANGE",
     "EXPECT_NPC", "IPALLOC_INIT", "WEAVE_EXPOSE_IP", "WEAVE_METRICS_ADDR",
     "WEAVE_PASSWORD", "WEAVE_STATUS_ADDR", "WEAVE_MTU", "NO_MASQ_LOCAL",
     "IPTABLES_BACKEND" >>

\* Array.prototype.includes on allowedEnvVars; varname is a token sequence
Includes(arr, varname) ==
  /\ Len(varname) = 1
  /\ \E i \in DOMAIN arr : arr[i] = varname[1]

\* ds.spec.template.spec.containers[0].env : the array, or absent when a
\* step of the path is undefined (reading through it raises a TypeError)
FirstEnv(ds) ==
  IF /\ IsSome(ds.podSpec)
     /\ IsSome(ds.podSpec[1].containers)
     /\ Len(ds.podSpec[1].containers[1]) >= 1
  THEN ds.podSpec[1].containers[1][1].env
  ELSE None

SetFirstEnv(ds, env) ==
  [ds EXCEPT !.podSpec[1].containers[1][1].env = Some(env)]

\* upsertEnvVar on the first container's env, as both callers use it
UpsertFirstEnv(ds, element) ==
  IF IsSome(FirstEnv(ds))
  THEN Ok(SetFirstEnv(ds, upsertEnvVar(FirstEnv(ds)[1], element)))
  ELSE Raise(ds)

\* a plausible slip: the allow-list is not consulted
processEnvVarUnchecked(varname, varvalue, ds) ==
  UpsertFirstEnv(ds, Entry(IF Len(varname) = 1 THEN varname[1] ELSE "", Some(varvalue), None))

processEnvVar(varname, varvalue, ds) ==
  IF Includes(allowedEnvVars, varname)
  THEN UpsertFirstEnv(ds, Entry(varname[1], Some(varvalue), None))
  ELSE Ok(ds)

(***************************************************************************)
(* processSELinuxOption: securityContext.seLinuxOptions[optname] = optval.  *)
(* The options mapping is an ordered sequence of <<name, value>> pairs.     *)
(***************************************************************************)
SetKey(mapping, k, v) ==
  IF \E i \in DOMAIN mapping : mapping[i][1] = k
  THEN [i \in DOMAIN mapping |-> IF mapping[i][1] = k THEN <<k, v>> ELSE mapping[i]]
  ELSE Append(mapping, <<k, v>>)

processSELinuxOption(optname, optval, ds) ==
  IF /\ IsSome(ds.podSpec)
     /\ IsSome(ds.podSpec[1].securityContext)
     /\ IsSome(ds.podSpec[1].securityContext[1].seLinuxOptions)
  THEN Ok([ds EXCEPT !.podSpec[1].securityContext[1].seLinuxOptions[1] =
                        SetKey(@, optname, optval)])
  ELSE Raise(ds)

(***************************************************************************)
(* processVersion.  replaceImageTag is String.replace with a pattern that   *)
(* is a colon, a greedy capture of any characters and the end anchor: the   *)
(* leftmost ":" of the reference starts the match, which runs to the end;   *)
(* in the replacement text `:${optval}` the patterns $& and $1 stand for    *)
(* the match and for the captured group.                                    *)
(***************************************************************************)
FirstColon(imageName) ==
  LET hits == { i \in DOMAIN imageName : imageName[i] = ":" }
  IN  IF hits = {} THEN 0 ELSE CHOOSE i \in hits : \A j \in hits : i <= j

LastColon(imageName) ==
  LET hits == { i \in DOMAIN imageName : imageName[i] = ":" }
  IN  IF hits = {} THEN 0 ELSE CHOOSE i \in hits : \A j \in hits : i >= j

Expand(optval, whole, group) ==
  IF optval = "$&" THEN whole
  ELSE IF optval = "$1" THEN group
  ELSE IF optval = "" THEN <<>>
  ELSE <<optval>>

replaceImageTag(imageName, optval) ==
  LET i == FirstColon(imageName)
  IN  IF i = 0 THEN imageName
      ELSE SubSeq(imageName, 1, i - 1) \o <<":">> \o
           Expand(optval, SubSeq(imageName, i, Len(imageName)),
                          SubSeq(imageName, i + 1, Len(imageName)))

\* arr[i].image = replaceImageTag(arr[i].image, optval); a container without
\* an image makes String.replace a call on undefined
Retag(arr, i, optval) ==
  [arr EXCEPT ![i].image = Some(replaceImageTag(arr[i].image[1], optval))]

\* a plausible slip: every container is given the tag, as the comment above
\* the function says
processVersionAll(optname, optval, ds) ==
  IF \/ ~IsSome(ds.podSpec)
     \/ ~IsSome(ds.podSpec[1].initContainers)
     \/ ~IsSome(ds.podSpec[1].containers)
  THEN Raise(ds)
  ELSE
  LET ps == ds.podSpec[1]
      ics == ps.initContainers[1]
      cs == ps.containers[1]
  IN  IF \E i \in DOMAIN cs : ~IsSome(cs[i].image) THEN Raise(ds)
      ELSE Ok([ds EXCEPT
                 !.podSpec[1].initContainers =
                    Some(IF Len(ics) >= 1 THEN Retag(ics, 1, optval) ELSE ics),
                 !.podSpec[1].containers =
                    Some([i \in DOMAIN cs |->
                            [cs[i] EXCEPT !.image = Some(replaceImageTag(cs[i].image[1], optval))]])])

processVersion(optname, optval, ds) ==
  IF ~IsSome(ds.podSpec) THEN Raise(ds)
  ELSE
  LET ps == ds.podSpec[1]
  IN  IF ~IsSome(ps.initContainers) THEN Raise(ds)
      ELSE IF Len(ps.initContainers[1]) >= 1 /\ ~IsSome(ps.initContainers[1][1].image)
      THEN Raise(ds)
      ELSE
      LET ics == IF Len(ps.initContainers[1]) >= 1
                 THEN Retag(ps.initContainers[1], 1, optval)
                 ELSE ps.initContainers[1]
      IN  IF \/ ~IsSome(ps.containers)
             \/ Len(ps.containers[1]) = 0
             \/ ~IsSome(ps.containers[1][1].image)
          THEN Raise(ds)
          ELSE
          LET cs1 == Retag(ps.containers[1], 1, optval)
          IN  IF Len(cs1) >= 2 /\ ~IsSome(cs1[2].image) THEN Raise(ds)
              ELSE
              LET cs2 == IF Len(cs1) >= 2 THEN Retag(cs1, 2, optval) ELSE cs1
              IN  Ok([ds EXCEPT !.podSpec[1].initContainers = Some(ics),
                                !.podSpec[1].containers = Some(cs2)])

(***************************************************************************)
(* processDisableNPC, processPasswordSecret, processOtherOptions            *)
(***************************************************************************)
\* Array.prototype.splice(index, 1)
Splice(arr, index) ==
  SubSeq(arr, 1, index - 1) \o SubSeq(arr, index + 1, Len(arr))

\* a plausible slip: the value is tested for truthiness
processDisableNPCTruthy(optname, optval, ds) ==
  IF ~Truthy(optval) THEN Ok(ds)
  ELSE
  LET m1 == processEnvVar(<<"EXPECT_NPC">>, "0", ds)
  IN  IF m1.raised THEN m1
      ELSE Ok([m1.ds EXCEPT !.podSpec[1].containers[1] =
                 IF FindIndex(@, "weave-npc") # 0 THEN Splice(@, FindIndex(@, "weave-npc")) ELSE @])

\* a plausible slip: the variable is set but the container is kept
processDisableNPCKeep(optname, optval, ds) ==
  IF optval # "true" THEN Ok(ds) ELSE processEnvVar(<<"EXPECT_NPC">>, "0", ds)

processDisableNPC(optname, optval, ds) ==
  IF optval # "true" THEN Ok(ds)
  ELSE
  LET m1 == processEnvVar(<<"EXPECT_NPC">>, "0", ds)
  IN  IF m1.raised THEN m1
      ELSE IF ~IsSome(m1.ds.podSpec) \/ ~IsSome(m1.ds.podSpec[1].containers)
      THEN Raise(m1.ds)
      ELSE
      LET cs == m1.ds.podSpec[1].containers[1]
          npcContainerIndex == FindIndex(cs, "weave-npc")
      IN  IF npcContainerIndex # 0
          THEN Ok([m1.ds EXCEPT !.podSpec[1].containers[1] = Splice(cs, npcContainerIndex)])
          ELSE m1

processPasswordSecret(optname, optval, ds) ==
  IF ~Truthy(optval) THEN Ok(ds)
  ELSE UpsertFirstEnv(ds, Entry("WEAVE_PASSWORD", None, Some(SecretKeyRef(optval, optval))))

\* otherOptionsMap[optname]: the key must be the whole option name.  The map
\* is an object literal, so the lookup also finds what it inherits: for
\* __proto__ an object that is not a function (calling it is a TypeError),
\* for constructor a function whose call changes nothing.
processOtherOptions(optname, optval, ds) ==
  IF optname = <<"version">> THEN processVersion(optname, optval, ds)
  ELSE IF optname = <<"disable-npc">> THEN processDisableNPC(optname, optval, ds)
  ELSE IF optname = <<"password-secret">> THEN processPasswordSecret(optname, optval, ds)
  ELSE IF optname = <<"__proto__">> THEN Raise(ds)
  ELSE IF optname = <<"constructor">> THEN Ok(ds)
  ELSE Ok(ds)

(***************************************************************************)
(* processManifest                                                          *)
(***************************************************************************)
\* the body of a result: an error message, or the text yaml.dump writes for
\* a document (held as the document it serializes)
Message(m) == [kind |-> "message", text |-> m, doc |-> None]

yamlDump(doc) == [kind |-> "yaml", text |-> "", doc |-> Some(doc)]

processError(message) == [status |-> "error", body |-> Message(message)]

\* a TypeError leaving processManifest (no result is returned)
Raised == [status |-> "raised", body |-> Message("TypeError")]

\* String.match with the unanchored pattern <prefix>(.*) : the index of the
\* first occurrence of the prefix token in the key, 0 when there is none
MatchPrefix(key, prefix) ==
  LET hits == { i \in DOMAIN key : key[i] = prefix }
  IN  IF hits = {} THEN 0 ELSE CHOOSE i \in hits : \A j \in hits : i <= j

Rest(key, i) == SubSeq(key, i + 1, Len(key))

\* one turn of the loop over params.entries()
processOption(opt, ds) ==
  LET envParamMatch == MatchPrefix(opt[1], "env.")
      seLinuxParamMatch == MatchPrefix(opt[1], "seLinuxOptions.")
  IN  IF envParamMatch # 0
      THEN processEnvVar(Rest(opt[1], envParamMatch), opt[2], ds)
      ELSE IF seLinuxParamMatch # 0
           THEN processSELinuxOption(Rest(opt[1], seLinuxParamMatch), opt[2], ds)
           ELSE processOtherOptions(opt[1], opt[2], ds)

\* the loop: the options in arrival order, ended by the first TypeError
RECURSIVE processOptions(_, _)
processOptions(params, m) ==
  IF m.raised \/ Len(params) = 0 THEN m
  ELSE processOptions(Tail(params), processOption(Head(params), m.ds))

\* items.find((doc) => doc.kind === 'DaemonSet'): the index of the first
\* DaemonSet, 0 when there is none, -1 when a null element is read first
RECURSIVE FindDaemonSet(_, _)
FindDaemonSet(elems, i) ==
  IF i > Len(elems) THEN 0
  ELSE IF elems[i].tag = "null" THEN -1
  ELSE IF elems[i].tag = "mapping" /\ elems[i].kind = "DaemonSet" THEN i
  ELSE FindDaemonSet(elems, i + 1)

Located(idx) == [status |-> "located", body |-> Message(""), idx |-> idx]

NotLocated(result) == [status |-> result.status, body |-> result.body, idx |-> 0]

\* lines 216-235 on the outcome of yaml.loadAll(manifest): the position of
\* the target in items, or the error returned, or the TypeError raised
Locate(loaded) ==
  IF ~loaded.ok THEN NotLocated(processError("Could not read yaml from manifest"))
  ELSE
  LET yamlDocs == loaded.docs
      items == IF Len(yamlDocs) >= 1 /\ yamlDocs[1].isMapping
               THEN yamlDocs[1].items ELSE None
  IN  IF ~IsSome(items) \/ items[1].tag = "falsy"
      THEN NotLocated(processError("List not found"))
      ELSE IF items[1].tag # "seq" THEN NotLocated(Raised)
      ELSE
      LET idx == FindDaemonSet(items[1].elems, 1)
      IN  IF idx = -1 THEN NotLocated(Raised)
          ELSE IF idx = 0 THEN NotLocated(processError("Could not find daemonset"))
          ELSE Located(idx)

\* a plausible slip: the target alone is serialized
SuccessTargetOnly(yamlDocs, idx, ds) == [status |-> "success", body |-> yamlDump(ds)]

\* lines 256-259: the first document, with the target as mutated
Success(yamlDocs, idx, ds) ==
  [status |-> "success",
   body |-> yamlDump([yamlDocs[1] EXCEPT !.items[1].elems[idx] = ds])]

\* processManifest on the outcome of yaml.loadAll(manifest)
processLoaded(loaded, params) ==
  LET loc == Locate(loaded)
  IN  IF loc.status # "located" THEN [status |-> loc.status, body |-> loc.body]
      ELSE
      LET m == processOptions(params, Ok(loaded.docs[1].items[1].elems[loc.idx]))
      IN  IF m.raised THEN Raised ELSE Success(loaded.docs, loc.idx, m.ds)

(***************************************************************************)
(* Manifest texts and what yaml.loadAll makes of them.                      *)
(***************************************************************************)
FieldRef == [fieldRef |-> [key |-> "spec.nodeName", name |-> ""]]

WeaveImage == <<"weaveworks/weave-kube", ":", "latest">>

NpcImage == <<"weaveworks/weave-npc", ":", "latest">>

InitImage == <<"weaveworks/weave-init", ":", "latest">>

\* an image reference whose registry carries a port
PortImage == <<"registry", ":", "5000/weave-kube", ":", "latest">>

\* an image reference without a tag
BareImage == <<"weaveworks/weave-kube">>

WeaveEnv == << Entry("HOSTNAME", None, Some(FieldRef)),
               Entry("INIT_CONTAINER", Some("true"), None) >>

WeaveContainer == Container("weave", Some(WeaveImage), Some(WeaveEnv))

NpcContainer == Container("weave-npc", Some(NpcImage), Some(<<Entry("HOSTNAME", None, Some(FieldRef))>>))

InitContainer == Container("weave-init", Some(InitImage), Some(<<>>))

SecurityContext(opts) == [seLinuxOptions |-> opts]

\* the DaemonSet of the released manifest
WeaveNet ==
  Item("mapping", "DaemonSet", "weave-net",
       Some(PodSpec(Some(<<WeaveContainer, NpcContainer>>),
                    Some(<<InitContainer>>),
                    Some(SecurityContext(Some(<<>>))))))

\* a DaemonSet that has neither init containers nor a security context
PlainDaemonSet ==
  Item("mapping", "DaemonSet", "plain",
       Some(PodSpec(Some(<<WeaveContainer>>), None, None)))

\* a DaemonSet whose first container already sets a password and the NPC
\* flag, pulls from a registry with a port, and has a third container
CustomDaemonSet ==
  Item("mapping", "DaemonSet", "custom",
       Some(PodSpec(Some(<< Container("weave", Some(PortImage),
                                      Some(<< Entry("WEAVE_PASSWORD", Some("s3cr3t"), None),
                                              Entry("EXPECT_NPC", Some("1"), None) >>)),
                            NpcContainer,
                            Container("sidecar", Some(BareImage), None) >>),
                    Some(<<>>),
                    Some(SecurityContext(Some(<< << <<"type">>, "container_t" >> >>))))))

\* an image reference of another project
SidecarImage == <<"example/sidecar", ":", "1.0">>

\* the released DaemonSet with a third container that has a tagged image
SidecarDaemonSet ==
  Item("mapping", "DaemonSet", "weave-net",
       Some(PodSpec(Some(<< WeaveContainer, NpcContainer,
                            Container("sidecar", Some(SidecarImage), Some(<<>>)) >>),
                    Some(<<InitContainer>>),
                    Some(SecurityContext(Some(<<>>))))))

ServiceAccount == Item("mapping", "ServiceAccount", "weave-net", None)

NullItem == Item("null", "", "", None)

List(elems) == [isMapping |-> TRUE, items |-> Some([tag |-> "seq", elems |-> elems])]

Loaded(docs) == [ok |-> TRUE, docs |-> docs]

\* yaml.loadAll(manifest), which throws on malformed text
yamlLoadAll(manifest) ==
  CASE manifest = "" -> Loaded(<<>>)
    [] manifest = "{{malformed" -> [ok |-> FALSE, docs |-> <<>>]
    [] manifest = "Not Found" -> Loaded(<<[isMapping |-> FALSE, items |-> None]>>)
    [] manifest = "kind: List" -> Loaded(<<[isMapping |-> TRUE, items |-> None]>>)
    [] manifest = "items: ~" ->
         Loaded(<<[isMapping |-> TRUE, items |-> Some([tag |-> "falsy", elems |-> <<>>])]>>)
    [] manifest = "items: 5" ->
         Loaded(<<[isMapping |-> TRUE, items |-> Some([tag |-> "other", elems |-> <<>>])]>>)
    [] manifest = "items: []" -> Loaded(<<List(<<>>)>>)
    [] manifest = "items: [ServiceAccount]" -> Loaded(<<List(<<ServiceAccount>>)>>)
    [] manifest = "items: [~, DaemonSet]" -> Loaded(<<List(<<NullItem, WeaveNet>>)>>)
    [] manifest = "weave-daemonset" ->
         Loaded(<<List(<<ServiceAccount, WeaveNet, PlainDaemonSet>>)>>)
    [] manifest = "plain-daemonset" ->
         Loaded(<<List(<<PlainDaemonSet>>), List(<<WeaveNet>>)>>)
    [] manifest = "custom-daemonset" -> Loaded(<<List(<<CustomDaemonSet>>)>>)
    [] manifest = "sidecar-daemonset" -> Loaded(<<List(<<SidecarDaemonSet>>)>>)
    [] OTHER -> [ok |-> FALSE, docs |-> <<>>]

Texts == { "", "{{malformed", "Not Found", "kind: List", "items: ~", "items: 5",
           "items: []", "items: [ServiceAccount]", "items: [~, DaemonSet]",
           "weave-daemonset", "plain-daemonset", "custom-daemonset",
           "sidecar-daemonset" }

processManifest(manifest, params) == processLoaded(yamlLoadAll(manifest), params)

(***************************************************************************)
(* The server: processWeave and processWeaveManifest.                       *)
(*   cacheMap    source url -> optional text (the process-wide cache)       *)
(*   req         per request: position, url, parameters, response           *)
(*   fetchCount  source url -> number of retrievals started                 *)
(*   retrieved   the retrievals that completed: [url, status, data]         *)
(* Of a request, `download` is the outcome of its own retrieval and         *)
(* `handed` the text processManifest was called with.                       *)
(* A request is suspended only at the retrieval (`await fetch`), so the     *)
(* handler is two steps: Receive, up to the await, and FetchReturn, from    *)
(* the await to the end.  Upstream content is immutable: every successful   *)
(* retrieval of one url carries the same text.                              *)
(***************************************************************************)
MaxRequests == 2

Reqs == 1 .. MaxRequests

HttpOk == 200

HttpNotFound == 404

HttpError == 500

V(major, minor) == [major |-> major, minor |-> minor]

NoReport == [gitVersion |-> None, clientVersion |-> None]

Url(shape, version, report, query) ==
  [shape |-> shape, version |-> version, report |-> report, query |-> query]

K8sVersionParam == << <<"k8s-version">>, "base64" >>

\* the query strings the server model draws from
ServerQueries ==
  { <<>>,
    << << <<"env.", "WEAVE_MTU">>, "1337" >> >>,
    << K8sVersionParam, << <<"version">>, "2.8.1" >>, K8sVersionParam,
       << <<"env.", "WEAVE_MTU">>, "1337" >>, K8sVersionParam >> }

\* the urls the server model draws from
ServerUrls ==
  { Url("version", v, NoReport, q) :
      v \in { V(<<1>>, <<2, 8>>), V(<<1>>, <<9>>), V(<<1>>, <<7>>), V(<<2>>, <<2, 8>>) },
      q \in ServerQueries }
  \cup
  { Url("report", V(<<0>>, <<0>>), rep, <<K8sVersionParam>>) :
      rep \in { [gitVersion |-> Some(V(<<1>>, <<2, 5>>)), clientVersion |-> None],
                [gitVersion |-> None, clientVersion |-> Some(V(<<1>>, <<1, 0>>))],
                NoReport } }
  \cup
  { Url("other", V(<<0>>, <<0>>), NoReport, <<>>) }

\* the texts a successful retrieval may carry in the server model
UpstreamTexts == { "", "{{malformed", "items: 5", "weave-daemonset", "plain-daemonset" }

\* the body of a retrieval that reports another status
ErrorTexts == { "Not Found" }

\* a plausible slip: only the first pair of that name goes
RECURSIVE DeleteFirst(_, _)
DeleteFirst(params, name) ==
  IF Len(params) = 0 THEN <<>>
  ELSE IF Head(params)[1] = name THEN Tail(params)
  ELSE <<Head(params)>> \o DeleteFirst(Tail(params), name)

\* URLSearchParams.delete(name): every pair of that name goes, the others
\* keep their order
RECURSIVE Delete(_, _)
Delete(params, name) ==
  IF Len(params) = 0 THEN <<>>
  ELSE IF Head(params)[1] = name THEN Delete(Tail(params), name)
  ELSE <<Head(params)>> \o Delete(Tail(params), name)

NoResponse ==
  [ended |-> 0, statusCode |-> 0, contentType |-> "", format |-> "none",
   status |-> "", body |-> Message("")]

\* writeHead(404, 'No manifest found'); end()
NotFoundResponse == [NoResponse EXCEPT !.ended = 1, !.statusCode = HttpNotFound]

\* lines 164-173: the response for a result of processWeaveManifest
Respond(result) ==
  IF result.status = "success"
  THEN [ended |-> 1, statusCode |-> HttpOk, contentType |-> "application/yaml",
        format |-> "yaml", status |-> "", body |-> result.body]
  ELSE [ended |-> 1, statusCode |-> HttpError, contentType |-> "application/json",
        format |-> "json", status |-> result.status, body |-> result.body]

Idle ==
  [pc |-> "idle", url |-> Url("other", V(<<0>>, <<0>>), NoReport, <<>>),
   params |-> <<>>, manifestUrl |-> None, download |-> None, handed |-> None,
   res |-> NoResponse]

\* a plausible slip: the parsed documents of a text are kept and handed to
\* every request with that text, so the options of the requests before are
\* still applied
RECURSIVE AppliedBefore(_, _)
AppliedBefore(p, manifest) ==
  IF p = 0 THEN <<>>
  ELSE AppliedBefore(p - 1, manifest) \o
       (IF req[p].handed = Some(manifest) THEN req[p].params ELSE <<>>)

FinishedSharedTree(q, manifest) ==
  LET result == processManifest(manifest, AppliedBefore(MaxRequests, manifest) \o q.params)
  IN  IF result.status = "raised"
      THEN [q EXCEPT !.pc = "raised", !.handed = Some(manifest)]
      ELSE [q EXCEPT !.pc = "done", !.handed = Some(manifest), !.res = Respond(result)]

\* a plausible slip: after the retrieval the text is read back from the cache
FinishedFromCache(q, manifest) ==
  LET u == q.manifestUrl[1]
      text == IF IsSome(cacheMap[u]) THEN cacheMap[u][1] ELSE manifest
      result == processManifest(text, q.params)
  IN  IF result.status = "raised"
      THEN [q EXCEPT !.pc = "raised", !.handed = Some(text)]
      ELSE [q EXCEPT !.pc = "done", !.handed = Some(text), !.res = Respond(result)]

\* the request after processManifest ran on `manifest`: answered, or left
\* without an answer by a TypeError
Finished(q, manifest) ==
  LET result == processManifest(manifest, q.params)
  IN  IF result.status = "raised"
      THEN [q EXCEPT !.pc = "raised", !.handed = Some(manifest)]
      ELSE [q EXCEPT !.pc = "done", !.handed = Some(manifest), !.res = Respond(result)]

\* lines 191-195: a cached manifest is used when it is truthy
CacheHit(cache, weaveManifestUrl) ==
  IsSome(cache[weaveManifestUrl]) /\ Truthy(cache[weaveManifestUrl][1])

\* lines 200-202
\* a plausible slip: the older code, which cached whatever was retrieved
StoreAlways(cache, weaveManifestUrl, status, data) ==
  [cache EXCEPT ![weaveManifestUrl] = Some(data)]

Store(cache, weaveManifestUrl, status, data) ==
  IF status = HttpOk THEN [cache EXCEPT ![weaveManifestUrl] = Some(data)] ELSE cache

ServerInit ==
  /\ cacheMap = [u \in ManifestUrls |-> None]
  /\ req = [r \in Reqs |-> Idle]
  /\ fetchCount = [u \in ManifestUrls |-> 0]
  /\ retrieved = {}

\* the process runs: no rejection of a request handler has ended it
Alive == \A p \in Reqs : req[p].pc # "crashed"

\* processWeave up to the end or to `await fetch`
Receive(r, url) ==
  /\ Alive
  /\ req[r].pc = "idle"
  /\ \A p \in Reqs : p < r => req[p].pc # "idle"
  /\ LET urlResult == parseWeaveUrl(url)
         q0 == [req[r] EXCEPT !.url = url]
     IN  IF ~urlResult.matched
         THEN /\ req' = [req EXCEPT ![r] = [q0 EXCEPT !.pc = "done", !.res = NotFoundResponse]]
              /\ UNCHANGED fetchCount
         ELSE LET u == urlResult.manifestUrl[1]
                  q1 == [q0 EXCEPT !.params = Delete(url.query, <<"k8s-version">>),
                                   !.manifestUrl = Some(u)]
              IN  IF CacheHit(cacheMap, u)
                  THEN /\ req' = [req EXCEPT ![r] = Finished(q1, cacheMap[u][1])]
                       /\ UNCHANGED fetchCount
                  ELSE /\ req' = [req EXCEPT ![r] = [q1 EXCEPT !.pc = "fetching"]]
                       /\ fetchCount' = [fetchCount EXCEPT ![u] = @ + 1]
  /\ UNCHANGED <<cacheMap, retrieved, kv, mut>>

\* the retrieval completes with a status and a text: lines 198-204 and the
\* rest of processWeave
FetchReturn(r, status, data) ==
  /\ Alive
  /\ req[r].pc = "fetching"
  /\ LET u == req[r].manifestUrl[1]
     IN  /\ status = HttpOk =>
              /\ data \in UpstreamTexts
              /\ \A h \in retrieved : (h.url = u /\ h.status = HttpOk) => h.data = data
         /\ status # HttpOk => data \in ErrorTexts
         /\ retrieved' = retrieved \cup {[url |-> u, status |-> status, data |-> data]}
         /\ cacheMap' = Store(cacheMap, u, status, data)
         /\ req' = [req EXCEPT ![r] =
                      Finished([req[r] EXCEPT !.download =
                                  Some([status |-> status, data |-> data])], data)]
  /\ UNCHANGED <<fetchCount, kv, mut>>

\* the retrieval fails (a network error): fetch rejects, nothing catches it
FetchFail(r) ==
  /\ Alive
  /\ req[r].pc = "fetching"
  /\ req' = [req EXCEPT ![r].pc = "raised"]
  /\ UNCHANGED <<cacheMap, fetchCount, retrieved, kv, mut>>

\* requestListener awaits processWeave without a catch and createServer drops
\* the promise it returns: an error raised in the handler is an unhandled
\* rejection.  What the runtime does with it depends on the runtime: it warns
\* and goes on (the request stays "raised"), or it raises the rejection as an
\* uncaught exception and the process ends, taking every request in flight
\* and every later one with it.
Crash(r) ==
  /\ Alive
  /\ req[r].pc = "raised"
  /\ req' = [req EXCEPT ![r].pc = "crashed"]
  /\ UNCHANGED <<cacheMap, fetchCount, retrieved, kv, mut>>

Idle2 == [pc |-> "unused"]

Init ==
  /\ ServerInit
  /\ kv = Idle2
  /\ mut = Idle2

Next ==
  \/ \E r \in Reqs, url \in ServerUrls : Receive(r, url)
  \/ \E r \in Reqs, status \in {HttpOk, HttpNotFound}, data \in UpstreamTexts \cup ErrorTexts :
       FetchReturn(r, status, data)
  \/ \E r \in Reqs : FetchFail(r)
  \/ \E r \in Reqs : Crash(r)

Spec == Init /\ [][Next]_vars

(***************************************************************************)
(* Version resolution on its own: a version is drawn, chooseWeaveManifest   *)
(* is applied to it, then to a second minor version of the same major.      *)
(***************************************************************************)
ChooseInit ==
  /\ kv \in { [pc |-> "start", v1 |-> v, v2 |-> v, r1 |-> NotMatched, r2 |-> NotMatched] :
                v \in Versions }
  /\ mut = Idle2
  /\ ServerInit

ChooseFirst ==
  /\ kv.pc = "start"
  /\ kv' = [kv EXCEPT !.pc = "first", !.r1 = chooseWeaveManifest(kv.v1)]
  /\ UNCHANGED <<cacheMap, req, fetchCount, retrieved, mut>>

ChooseSecond(minor) ==
  /\ kv.pc = "first"
  /\ LET v == V(kv.v1.major, minor)
     IN  kv' = [kv EXCEPT !.pc = "second", !.v2 = v, !.r2 = chooseWeaveManifest(v)]
  /\ UNCHANGED <<cacheMap, req, fetchCount, retrieved, mut>>

ChooseNext ==
  \/ ChooseFirst
  \/ \E minor \in MinorStrings : ChooseSecond(minor)

SpecChoose == ChooseInit /\ [][ChooseNext]_vars

(***************************************************************************)
(* processManifest on its own, one turn of its loop at a time: a manifest   *)
(* text is drawn, Validate is the parse and the structural validation,      *)
(* Turn is one turn of the loop on an option that arrives, Return the end   *)
(* of the loop.  mut.params are the options processed so far, mut.work the  *)
(* target as they leave it, mut.before the target before the last turn.     *)
(***************************************************************************)
MaxParams == 2

\* the names env.<NAME> options are drawn with: the allow-list, the names
\* the README gives, a name of the source manifest and unknown ones
EnvNames ==
  { allowedEnvVars[i] : i \in DOMAIN allowedEnvVars }
  \cup { "KUBE_PEERS", "HOSTNAME", "UNKNOWN_VAR", "" }

\* the options the loop is fed
Options ==
  { << <<"env.", n>>, "v1" >> : n \in EnvNames }
  \cup
  { << <<"env.", "WEAVE_MTU">>, "1337" >>,
    << <<"env.", "WEAVE_MTU">>, "" >>,
    << <<"env.", "EXPECT_NPC">>, "" >>,
    << <<"env.", "WEAVE_PASSWORD">>, "" >>,
    << <<"x", "env.", "CONN_LIMIT">>, "30" >>,
    << <<"seLinuxOptions.", "type">>, "spc_t" >>,
    << <<"seLinuxOptions.", "env.", "NO_MASQ_LOCAL">>, "1" >>,
    << <<"version">>, "2.8.1" >>,
    << <<"disable-npc">>, "true" >>,
    << <<"disable-npc">>, "false" >>,
    << <<"disable-npc">>, "TRUE" >>,
    << <<"disable-npc">>, "1" >>,
    << <<"disable-npc">>, "" >>,
    << <<"password-secret">>, "weave-passwd" >>,
    << <<"password-secret">>, "" >>,
    << <<"known-peers">>, "10.0.0.1" >>,
    << <<"__proto__">>, "x" >> }

NoResult == [status |-> "none", body |-> Message("")]

MutInit ==
  /\ mut \in { [pc |-> "start", manifest |-> t, params |-> <<>>, idx |-> 0,
                before |-> NullItem, work |-> Ok(NullItem), result |-> NoResult] :
                 t \in Texts }
  /\ kv = Idle2
  /\ ServerInit

\* lines 216-235
Validate ==
  /\ mut.pc = "start"
  /\ LET loaded == yamlLoadAll(mut.manifest)
         loc == Locate(loaded)
     IN  mut' = IF loc.status = "located"
                THEN [mut EXCEPT !.pc = "loop", !.idx = loc.idx,
                                 !.before = loaded.docs[1].items[1].elems[loc.idx],
                                 !.work = Ok(loaded.docs[1].items[1].elems[loc.idx])]
                ELSE IF loc.status = "raised"
                     THEN [mut EXCEPT !.pc = "raised"]
                     ELSE [mut EXCEPT !.pc = "returned",
                                      !.result = [status |-> loc.status, body |-> loc.body]]
  /\ UNCHANGED <<cacheMap, req, fetchCount, retrieved, kv>>

\* lines 237-254, one turn
Turn(opt) ==
  /\ mut.pc = "loop"
  /\ Len(mut.params) < MaxParams
  /\ LET m == processOption(opt, mut.work.ds)
     IN  mut' = [mut EXCEPT !.pc = IF m.raised THEN "raised" ELSE "loop",
                            !.params = Append(mut.params, opt),
                            !.before = mut.work.ds,
                            !.work = m]
  /\ UNCHANGED <<cacheMap, req, fetchCount, retrieved, kv>>

\* lines 256-259
Return ==
  /\ mut.pc = "loop"
  /\ mut' = [mut EXCEPT !.pc = "returned",
                        !.result = processManifest(mut.manifest, mut.params)]
  /\ UNCHANGED <<cacheMap, req, fetchCount, retrieved, kv>>

MutNext ==
  \/ Validate
  \/ \E opt \in Options : Turn(opt)
  \/ Return

SpecMut == MutInit /\ [][MutNext]_vars

\* the turns taken one at a time and the loop taken whole agree
LoopAgrees ==
  mut.pc = "returned" /\ mut.result.status = "success" =>
    mut.result = Success(yamlLoadAll(mut.manifest).docs, mut.idx, mut.work.ds)

(***************************************************************************)
(* Properties of version resolution (checked under SpecChoose).             *)
(***************************************************************************)
\* the number a string of one or two decimal digits denotes
DecimalValue(str) == IF Len(str) = 1 THEN str[1] ELSE 10 * str[1] + str[2]

\* the release table as the documentation gives it: threshold and source
ReleaseTable ==
  { <<11, "weave-daemonset-k8s-1.11.yaml">>,
    <<9, "weave-daemonset-k8s-1.9.yaml">>,
    <<8, "weave-daemonset-k8s-1.8.yaml">> }

Applicable(n) == { e \in ReleaseTable : e[1] <= n }

ThresholdOf(result) == (CHOOSE e \in ReleaseTable : e[2] = result.manifestUrl[1])[1]

Selects(version, result) ==
  IF version.major # <<1>> \/ Applicable(DecimalValue(version.minor)) = {}
  THEN ~result.matched
  ELSE /\ result.matched
       /\ \E e \in Applicable(DecimalValue(version.minor)) :
            /\ \A f \in Applicable(DecimalValue(version.minor)) : f[1] <= e[1]
            /\ result.manifestUrl = Some(e[2])

\* C3: chooseWeaveManifest returns matched=false when major is not "1" or no
\* threshold is numerically <= minor, and otherwise the url of the entry with
\* the highest threshold <= minor (1.28 selects the threshold-11 entry, 1.10
\* the threshold-9 entry).
C3_HighestThreshold ==
  /\ kv.pc \in {"first", "second"} => Selects(kv.v1, kv.r1)
  /\ kv.pc = "second" => Selects(kv.v2, kv.r2)
  /\ (kv.pc = "first" /\ kv.v1 = V(<<1>>, <<2, 8>>)) =>
        kv.r1.manifestUrl = Some("weave-daemonset-k8s-1.11.yaml")
  /\ (kv.pc = "first" /\ kv.v1 = V(<<1>>, <<1, 0>>)) =>
        kv.r1.manifestUrl = Some("weave-daemonset-k8s-1.9.yaml")

\* version 1.10 has been resolved, to the threshold-9 source
C3_Witness ==
  /\ kv.pc = "first"
  /\ kv.v1 = V(<<1>>, <<1, 0>>)
  /\ kv.r1 = [matched |-> TRUE, manifestUrl |-> Some("weave-daemonset-k8s-1.9.yaml")]

\* C4: for minor versions m1 < m2 of major 1, both at or above the lowest
\* threshold, the source selected for m2 has a threshold that is not lower
\* than that of the source selected for m1.
C4_Monotone ==
  ( /\ kv.pc = "second"
    /\ kv.v1.major = <<1>>
    /\ DecimalValue(kv.v1.minor) < DecimalValue(kv.v2.minor)
    /\ Applicable(DecimalValue(kv.v1.minor)) # {} )
  => /\ kv.r1.matched
     /\ kv.r2.matched
     /\ ThresholdOf(kv.r1) <= ThresholdOf(kv.r2)

\* 1.9 and 1.28 have both been resolved, to different sources
C4_Witness ==
  /\ kv.pc = "second"
  /\ kv.v1 = V(<<1>>, <<9>>)
  /\ kv.v2 = V(<<1>>, <<2, 8>>)
  /\ ThresholdOf(kv.r1) < ThresholdOf(kv.r2)

(***************************************************************************)
(* Properties of the server (checked under Spec).                           *)
(***************************************************************************)
\* request r took its first step (Receive) in this step
Received(r) == req[r].pc = "idle" /\ req'[r].pc # "idle"

\* the retrieval of request r completed in this step
Downloaded(r) == ~IsSome(req[r].download) /\ IsSome(req'[r].download)

\* C1: the retrieved text is stored in the cache only when the retrieval's
\* status is 200: after every step each cache entry is the text of a
\* successful retrieval of that url, and a retrieval with another status
\* leaves the cache as it was while its text is what processManifest is
\* handed for that request.
C1_CacheOnlySuccess ==
  [][ /\ \A u \in ManifestUrls :
           IsSome(cacheMap'[u]) =>
             \E h \in retrieved' :
               h.url = u /\ h.status = 200 /\ h.data = cacheMap'[u][1]
      /\ \A r \in Reqs :
           (Downloaded(r) /\ req'[r].download[1].status # 200) =>
             /\ cacheMap' = cacheMap
             /\ req'[r].handed = Some(req'[r].download[1].data)
    ]_vars

\* a retrieval that reported 404 was answered from its text and left no entry
C1_Witness ==
  \E r \in Reqs :
    /\ req[r].pc = "done"
    /\ req[r].download = Some([status |-> 404, data |-> "Not Found"])
    /\ req[r].res.body = Message("List not found")
    /\ cacheMap[req[r].manifestUrl[1]] = None

\* C2: once a retrieval of a url has completed with success status, no later
\* request for that url starts a retrieval (it is served from the cache),
\* whatever the text, and the cache entry is not removed or changed.
C2_AtMostOneRetrieval ==
  [][ \A u \in ManifestUrls :
        (\E h \in retrieved : h.url = u /\ h.status = 200) =>
          /\ IsSome(cacheMap[u])
          /\ cacheMap'[u] = cacheMap[u]
          /\ \A r \in Reqs :
               (Received(r) /\ req'[r].manifestUrl = Some(u)) =>
                 /\ fetchCount'[u] = fetchCount[u]
                 /\ req'[r].pc # "fetching"
                 /\ req'[r].handed = cacheMap[u]
    ]_vars

\* the version a url carries: in its path, or in the decoded report
CarriedVersion(url) ==
  IF url.shape = "version" THEN Some(url.version)
  ELSE IF url.shape = "report"
       THEN IF IsSome(url.report.gitVersion) THEN url.report.gitVersion
            ELSE url.report.clientVersion
       ELSE None

\* the four ways resolution fails
ResolutionFails(url) ==
  \/ url.shape \notin {"version", "report"}
  \/ /\ url.shape = "report"
     /\ url.report.gitVersion = None
     /\ url.report.clientVersion = None
  \/ /\ IsSome(CarriedVersion(url))
     /\ \/ CarriedVersion(url)[1].major # <<1>>
        \/ Applicable(DecimalValue(CarriedVersion(url)[1].minor)) = {}

\* C5: when version resolution fails for a request, processWeave answers 404,
\* no retrieval is started for it, then or later, and the cache is unchanged.
C5_NotFoundWithoutFetch ==
  [][ \A r \in Reqs :
        /\ (Received(r) /\ ResolutionFails(req'[r].url)) =>
             /\ req'[r].res = NotFoundResponse
             /\ fetchCount' = fetchCount
             /\ cacheMap' = cacheMap
        /\ (req'[r].pc # "idle" /\ ResolutionFails(req'[r].url)) =>
             /\ req'[r].pc = "done"
             /\ req'[r].download = None
             /\ req'[r].handed = None
    ]_vars

\* a report matching neither format and a major version 2 were both
\* answered 404
C5_Witness ==
  \E r1, r2 \in Reqs :
    /\ req[r1].pc = "done" /\ req[r1].res = NotFoundResponse
    /\ req[r1].url.shape = "report" /\ req[r1].url.report = NoReport
    /\ req[r2].pc = "done" /\ req[r2].res = NotFoundResponse
    /\ req[r2].url.shape = "version" /\ req[r2].url.version.major = <<2>>

\* request r is over and its retrieval, if it had one, completed
Over(r) ==
  \/ req[r].pc = "done"
  \/ req[r].pc = "raised" /\ IsSome(req[r].handed)

\* C6: every request whose retrieval (if any) completes receives exactly one
\* ended response, of the kind its outcome determines: an empty 404 when no
\* source matches, the serialized document as application/yaml with 200 when
\* processing succeeds, the status object {status: "error", body: message}
\* with an error status when parsing or structural validation fails.
C6_OneResponse ==
  \A r \in Reqs :
    Over(r) =>
      /\ req[r].res.ended = 1
      /\ \/ /\ ResolutionFails(req[r].url)
            /\ req[r].res = NotFoundResponse
         \/ /\ ~ResolutionFails(req[r].url)
            /\ req[r].res.statusCode = 200
            /\ req[r].res.contentType = "application/yaml"
            /\ req[r].res.format = "yaml"
            /\ req[r].res.body.kind = "yaml"
         \/ /\ ~ResolutionFails(req[r].url)
            /\ req[r].res.statusCode >= 400
            /\ req[r].res.format = "json"
            /\ req[r].res.status = "error"
            /\ req[r].res.body.kind = "message"

(***************************************************************************)
(* Properties of processManifest (checked under SpecMut).                   *)
(***************************************************************************)
\* the last turn of the loop took place in this step, on option Last
Turned == mut.pc = "loop" /\ Len(mut'.params) = Len(mut.params) + 1

Last == mut'.params[Len(mut'.params)]

\* an option of the form env.<NAME>=<value>
IsEnvOption(opt) == Len(opt[1]) = 2 /\ opt[1][1] = "env."

EnvNamed(ds, n) == { i \in DOMAIN FirstEnv(ds)[1] : FirstEnv(ds)[1][i].name = n }

\* what the manifest text holds, read off the parsed documents
Malformed(loaded) == ~loaded.ok

HasList(loaded) ==
  /\ loaded.ok
  /\ Len(loaded.docs) >= 1
  /\ loaded.docs[1].isMapping
  /\ IsSome(loaded.docs[1].items)
  /\ loaded.docs[1].items[1].tag = "seq"

DaemonSets(loaded) ==
  { i \in DOMAIN loaded.docs[1].items[1].elems :
      /\ loaded.docs[1].items[1].elems[i].tag = "mapping"
      /\ loaded.docs[1].items[1].elems[i].kind = "DaemonSet" }

\* C7: processManifest classifies bad source text in a fixed order and returns
\* an error result instead of raising: malformed text gives the could-not-read
\* message; a missing first document or a first document without an items
\* list gives the list-not-found message; no item of kind DaemonSet gives the
\* daemonset-not-found message; otherwise the target is the first item of kind
\* DaemonSet.  (The messages are the code's texts for these three errors.)
C7_Classification ==
  (mut.pc # "start" /\ mut.pc # "unused" /\ mut.params = <<>>) =>
    LET loaded == yamlLoadAll(mut.manifest)
    IN  /\ mut.pc # "raised"
        /\ IF Malformed(loaded)
           THEN /\ mut.pc = "returned"
                /\ mut.result = processError("Could not read yaml from manifest")
           ELSE IF ~HasList(loaded)
           THEN /\ mut.pc = "returned"
                /\ mut.result = processError("List not found")
           ELSE IF DaemonSets(loaded) = {}
           THEN /\ mut.pc = "returned"
                /\ mut.result = processError("Could not find daemonset")
           ELSE /\ mut.idx \in DaemonSets(loaded)
                /\ \A i \in DaemonSets(loaded) : mut.idx <= i
                /\ mut.pc = "loop" =>
                     mut.work.ds = loaded.docs[1].items[1].elems[mut.idx]

\* C8: an env.<NAME>=<value> option whose NAME is outside the allow-list
\* creates no env entry named NAME and changes no entry: the env sequence of
\* the target (and the target) is the same before and after that option.
C8_UnknownEnvIgnored ==
  [][ ( /\ Turned
        /\ IsEnvOption(Last)
        /\ \A i \in DOMAIN allowedEnvVars : allowedEnvVars[i] # Last[1][2] )
      => /\ ~mut'.work.raised
         /\ FirstEnv(mut'.work.ds) = FirstEnv(mut.work.ds)
         /\ EnvNamed(mut'.work.ds, Last[1][2]) = EnvNamed(mut.work.ds, Last[1][2])
         /\ mut'.work.ds = mut.work.ds
    ]_vars

\* env.UNKNOWN_VAR was processed after an allowed option and left no entry
C8_Witness ==
  /\ mut.pc = "loop"
  /\ Len(mut.params) = 2
  /\ mut.params[1] = << <<"env.", "WEAVE_MTU">>, "1337" >>
  /\ mut.params[2] = << <<"env.", "UNKNOWN_VAR">>, "v1" >>
  /\ EnvNamed(mut.work.ds, "WEAVE_MTU") # {}
  /\ EnvNamed(mut.work.ds, "UNKNOWN_VAR") = {}

\* the twelve names of the closed allow-list
TwelveNames ==
  { "CHECKPOINT_DISABLE", "CONN_LIMIT", "HAIRPIN_MODE", "IPALLOC_RANGE",
    "EXPECT_NPC", "IPALLOC_INIT", "WEAVE_EXPOSE_IP", "WEAVE_METRICS_ADDR",
    "WEAVE_STATUS_ADDR", "WEAVE_MTU", "NO_MASQ_LOCAL", "IPTABLES_BACKEND" }

\* C9: the allow-list consulted by env.<NAME> options is exactly the twelve
\* names; an env.<NAME> option for any other name, WEAVE_PASSWORD included,
\* creates or changes no env entry.
C9_TwelveNames ==
  [][ ( /\ Turned
        /\ IsEnvOption(Last)
        /\ Last[1][2] \notin TwelveNames )
      => /\ ~mut'.work.raised
         /\ FirstEnv(mut'.work.ds) = FirstEnv(mut.work.ds)
    ]_vars

\* the variables the README lists as the ones that can be set
ReadmeVariables ==
  { "CHECKPOINT_DISABLE", "CONN_LIMIT", "HAIRPIN_MODE", "IPALLOC_RANGE",
    "EXPECT_NPC", "KUBE_PEERS", "IPALLOC_INIT", "WEAVE_EXPOSE_IP",
    "WEAVE_METRICS_ADDR", "WEAVE_STATUS_ADDR", "WEAVE_MTU", "NO_MASQ_LOCAL",
    "IPTABLES_BACKEND" }

\* C10: every variable the README lists can be set: after env.<NAME>=<value>
\* for such a NAME the first container has an env entry with that name and
\* that value.
C10_ReadmeVariablesSet ==
  [][ ( /\ Turned
        /\ IsEnvOption(Last)
        /\ Last[1][2] \in ReadmeVariables )
      => /\ ~mut'.work.raised
         /\ \E i \in EnvNamed(mut'.work.ds, Last[1][2]) :
              FirstEnv(mut'.work.ds)[1][i].value = Some(Last[2])
    ]_vars

\* no two entries of the first container's env carry the same name
NoDuplicate(ds) ==
  \A i, j \in DOMAIN FirstEnv(ds)[1] :
    FirstEnv(ds)[1][i].name = FirstEnv(ds)[1][j].name => i = j

\* the option of this turn is the one the turn before processed
Repeated == Len(mut.params) >= 1 /\ mut.params[Len(mut.params)] = Last

\* C11: env-var upsert is idempotent: after env.NAME=value was processed
\* twice in a row, for an allowed NAME and any value, there is exactly one
\* entry named NAME, it holds that value, and the env sequence is the one the
\* first of the two left; and no option gives two entries one name when the
\* env had no name twice before it.
C11_UpsertIdempotent ==
  [][ Turned =>
        /\ NoDuplicate(mut.work.ds) => NoDuplicate(mut'.work.ds)
        /\ ( /\ IsEnvOption(Last)
             /\ Includes(allowedEnvVars, <<Last[1][2]>>)
             /\ Repeated )
           => /\ ~mut'.work.raised
              /\ Cardinality(EnvNamed(mut'.work.ds, Last[1][2])) = 1
              /\ \A i \in EnvNamed(mut'.work.ds, Last[1][2]) :
                   FirstEnv(mut'.work.ds)[1][i].value = Some(Last[2])
              /\ FirstEnv(mut'.work.ds) = FirstEnv(mut.work.ds)
    ]_vars

\* an option of the form password-secret=<value>
IsSecretOption(opt) == opt[1] = <<"password-secret">>

\* the env-var name an env.<NAME> or password-secret option is about
Target(opt) == IF IsSecretOption(opt) THEN "WEAVE_PASSWORD" ELSE opt[1][2]

\* only env.<NAME> and password-secret options were processed
OnlyEnvAndSecret(params) ==
  \A i \in DOMAIN params : IsEnvOption(params[i]) \/ IsSecretOption(params[i])

\* C12: after any sequence of env.<NAME> and password-secret options, every
\* env entry named by one of them has exactly one of value / valueFrom; a
\* secret reference upserted onto an entry with a plain value removes the
\* plain value, and a plain value upserted onto an entry with a secret
\* reference removes the reference.
C12_ValueXorValueFrom ==
  [][ (Turned /\ OnlyEnvAndSecret(mut'.params)) =>
        LET old == FirstEnv(mut.work.ds)[1]
            new == FirstEnv(mut'.work.ds)[1]
            n == Target(Last)
        IN  /\ ~mut'.work.raised
            /\ \A k \in DOMAIN mut'.params :
                 \A i \in EnvNamed(mut'.work.ds, Target(mut'.params[k])) :
                   IsSome(new[i].value) # IsSome(new[i].valueFrom)
            /\ ( /\ IsSecretOption(Last)
                 /\ Last[2] # ""
                 /\ \E i \in EnvNamed(mut.work.ds, n) : IsSome(old[i].value) )
               => \A i \in EnvNamed(mut'.work.ds, n) :
                    /\ new[i].value = None
                    /\ new[i].valueFrom = Some(SecretKeyRef(Last[2], Last[2]))
            /\ ( /\ IsEnvOption(Last)
                 /\ Includes(allowedEnvVars, <<n>>)
                 /\ \E i \in EnvNamed(mut.work.ds, n) : IsSome(old[i].valueFrom) )
               => \A i \in EnvNamed(mut'.work.ds, n) :
                    /\ new[i].valueFrom = None
                    /\ new[i].value = Some(Last[2])
    ]_vars

\* the option is one that upserts an env entry: env.<NAME> for an allowed
\* NAME, or password-secret with a value
Upserts(opt) ==
  \/ IsEnvOption(opt) /\ Includes(allowedEnvVars, <<opt[1][2]>>)
  \/ IsSecretOption(opt) /\ opt[2] # ""

\* the entry an upserting option supplies
Supplied(opt) ==
  IF IsSecretOption(opt)
  THEN Entry("WEAVE_PASSWORD", None, Some(SecretKeyRef(opt[2], opt[2])))
  ELSE Entry(opt[1][2], Some(opt[2]), None)

\* C13: options are applied in arrival order and duplicates are kept: when
\* several options of one request upsert the same env-var name, the entry of
\* that name is the one the last of them supplied, whatever its value, the
\* empty one included.
C13_LastWins ==
  (mut.pc = "loop" /\ OnlyEnvAndSecret(mut.params)) =>
    \A j, k \in DOMAIN mut.params :
      ( /\ j < k
        /\ Upserts(mut.params[j])
        /\ Upserts(mut.params[k])
        /\ Target(mut.params[j]) = Target(mut.params[k])
        /\ \A l \in DOMAIN mut.params :
             (l > k /\ Upserts(mut.params[l])) =>
               Target(mut.params[l]) # Target(mut.params[k]) )
      => /\ Cardinality(EnvNamed(mut.work.ds, Target(mut.params[k]))) = 1
         /\ \A i \in EnvNamed(mut.work.ds, Target(mut.params[k])) :
              FirstEnv(mut.work.ds)[1][i] = Supplied(mut.params[k])

\* an image reference with the text after its last ":" replaced by the tag,
\* and itself when it holds no ":"
WithTag(imageName, tag) ==
  IF LastColon(imageName) = 0 THEN imageName
  ELSE SubSeq(imageName, 1, LastColon(imageName)) \o <<tag>>

\* the image references a version option rewrites: of the first init
\* container, the first container and the second container, where present
Rewritten(ds) ==
  LET ps == ds.podSpec[1]
  IN  { <<"initContainers", i>> : i \in DOMAIN ps.initContainers[1] \cap {1} }
      \cup { <<"containers", i>> : i \in DOMAIN ps.containers[1] \cap {1, 2} }

ImageAt(ds, pos) == ds.podSpec[1][pos[1]][1][pos[2]].image[1]

\* C14: a version=<tag> option replaces only the text after the last ":" of
\* each image reference it rewrites, leaving everything before that colon as
\* it was, also when the reference holds an earlier colon (a registry port);
\* a reference without a colon is left as it was.
C14_TagAfterLastColon ==
  [][ (Turned /\ Last[1] = <<"version">> /\ ~mut'.work.raised) =>
        /\ Rewritten(mut'.work.ds) = Rewritten(mut.work.ds)
        /\ \A pos \in Rewritten(mut.work.ds) :
             ImageAt(mut'.work.ds, pos) = WithTag(ImageAt(mut.work.ds, pos), Last[2])
    ]_vars

DisableNpc == << <<"disable-npc">>, "true" >>

\* the names of the target's containers
ContainerNames(ds) ==
  { ds.podSpec[1].containers[1][i].name : i \in DOMAIN ds.podSpec[1].containers[1] }

\* C15: once disable-npc=true has been processed, the target has no container
\* named weave-npc for the rest of the request, and right after that option
\* the first container's env holds the entry EXPECT_NPC with the value "0",
\* whether or not the entry was there before.
C15_NpcDisabled ==
  [][ Turned =>
        /\ (\E k \in DOMAIN mut'.params : mut'.params[k] = DisableNpc) =>
             "weave-npc" \notin ContainerNames(mut'.work.ds)
        /\ Last = DisableNpc =>
             /\ ~mut'.work.raised
             /\ Cardinality(EnvNamed(mut'.work.ds, "EXPECT_NPC")) = 1
             /\ \A i \in EnvNamed(mut'.work.ds, "EXPECT_NPC") :
                  FirstEnv(mut'.work.ds)[1][i] = Entry("EXPECT_NPC", Some("0"), None)
    ]_vars

\* disable-npc=true was processed on a target that had the container and the
\* entry EXPECT_NPC with another value, and a version option came after it
C15_Witness ==
  /\ mut.pc = "loop"
  /\ mut.manifest = "custom-daemonset"
  /\ mut.params = << DisableNpc, << <<"version">>, "2.8.1" >> >>
  /\ ContainerNames(mut.work.ds) = {"weave", "sidecar"}
  /\ \E i \in EnvNamed(mut.work.ds, "EXPECT_NPC") :
       FirstEnv(mut.work.ds)[1][i].value = Some("0")

\* C16: password-secret=<v> with a non-empty v leaves exactly one env entry
\* named WEAVE_PASSWORD, whose valueFrom references the secret named v and its
\* key v and which has no plain value, also when an entry with a plain value
\* was there before; with an empty v the option changes nothing.
C16_PasswordSecret ==
  [][ (Turned /\ IsSecretOption(Last)) =>
        /\ ~mut'.work.raised
        /\ IF Last[2] # ""
           THEN /\ Cardinality(EnvNamed(mut'.work.ds, "WEAVE_PASSWORD")) = 1
                /\ \A i \in EnvNamed(mut'.work.ds, "WEAVE_PASSWORD") :
                     FirstEnv(mut'.work.ds)[1][i] =
                       Entry("WEAVE_PASSWORD", None, Some(SecretKeyRef(Last[2], Last[2])))
           ELSE mut'.work.ds = mut.work.ds
    ]_vars

\* the option replaced the plain password of the source by a reference
C16_Witness ==
  /\ mut.pc = "loop"
  /\ mut.params = << << <<"password-secret">>, "weave-passwd" >> >>
  /\ Entry("WEAVE_PASSWORD", Some("s3cr3t"), None) \in
       { FirstEnv(mut.before)[1][i] : i \in DOMAIN FirstEnv(mut.before)[1] }
  /\ \E i \in EnvNamed(mut.work.ds, "WEAVE_PASSWORD") :
       /\ FirstEnv(mut.work.ds)[1][i].value = None
       /\ FirstEnv(mut.work.ds)[1][i].valueFrom =
            Some(SecretKeyRef("weave-passwd", "weave-passwd"))

\* the source text passes the structural validation
Valid(manifest) == Locate(yamlLoadAll(manifest)).status = "located"

\* C17: applying options never fails: for a source text that passes the
\* structural validation (its target with or without init containers, a
\* security context or SELinux options) and every sequence of options, no
\* option raises an error, and processManifest returns a success result.
C17_NeverFails ==
  (mut.pc # "start" /\ Valid(mut.manifest)) =>
    /\ mut.pc # "raised"
    /\ ~mut.work.raised
    /\ mut.pc = "returned" => mut.result.status = "success"

\* the positions of the query's pairs that are not the reserved parameter
Kept(query) == { i \in DOMAIN query : query[i][1] # <<"k8s-version">> }

\* C18: the reserved k8s-version parameter never reaches the mutation pass:
\* for every request that resolves to a source, the parameters processManifest
\* is given are the pairs of the query string that are not named k8s-version,
\* all of them and in their arrival order, wherever and however many times
\* k8s-version appears.
C18_ReservedRemoved ==
  \A r \in Reqs :
    (req[r].pc # "idle" /\ IsSome(req[r].manifestUrl)) =>
      LET query == req[r].url.query
      IN  /\ \A j \in DOMAIN req[r].params : req[r].params[j][1] # <<"k8s-version">>
          /\ Len(req[r].params) = Cardinality(Kept(query))
          /\ \A i \in Kept(query) :
               req[r].params[Cardinality({ k \in Kept(query) : k <= i })] = query[i]
          /\ (req[r].pc = "done" /\ IsSome(req[r].handed)) =>
               req[r].res = Respond(processManifest(req[r].handed[1], req[r].params))

\* a query with k8s-version first, in the middle and last was answered from
\* the two other parameters, in their order
C18_Witness ==
  \E r \in Reqs :
    /\ req[r].pc = "done"
    /\ Len(req[r].url.query) = 5
    /\ req[r].url.query[1] = K8sVersionParam
    /\ req[r].url.query[3] = K8sVersionParam
    /\ req[r].url.query[5] = K8sVersionParam
    /\ req[r].params = << << <<"version">>, "2.8.1" >>, << <<"env.", "WEAVE_MTU">>, "1337" >> >>
    /\ req[r].res.statusCode = 200

\* what a request with these parameters gives when it runs alone and its
\* retrieval carries this text: the response, or none after a TypeError
Alone(params, text) ==
  LET result == processManifest(text, params)
  IN  IF result.status = "raised" THEN NoResponse ELSE Respond(result)

\* request p retrieves, or has retrieved, the source that request r retrieves
Rival(r, p) ==
  /\ p # r
  /\ req[p].manifestUrl = req[r].manifestUrl
  /\ req[p].pc = "fetching" \/ IsSome(req[p].download)

\* C19: when two requests retrieve the same source independently, whatever
\* the interleaving: each successful retrieval writes the cache entry of that
\* source with the upstream text, the same text as the other's, and alters no
\* other entry; a retrieval does not disturb the other request; and each
\* request's output is what it gives when it runs alone.
C19_BenignRace ==
  [][ \A r, p \in Reqs :
        (Downloaded(r) /\ Rival(r, p)) =>
          LET u == req[r].manifestUrl[1]
              d == req'[r].download[1]
          IN  /\ d.status = 200 =>
                   /\ cacheMap' = [cacheMap EXCEPT ![u] = Some(d.data)]
                   /\ (IsSome(req[p].download) /\ req[p].download[1].status = 200) =>
                        /\ req[p].download[1].data = d.data
                        /\ cacheMap[u] = Some(d.data)
              /\ d.status # 200 => cacheMap' = cacheMap
              /\ req'[p] = req[p]
              /\ req'[r].pc \in {"done", "raised"}
              /\ req'[r].res = Alone(req[r].params, d.data)
    ]_vars

\* two requests for one source, with different parameters, both retrieved
\* it (the second retrieval began before the first had filled the cache),
\* and each was answered as when alone
C19_Witness ==
  \E r, p \in Reqs :
    /\ r # p
    /\ req[r].pc = "done" /\ req[p].pc = "done"
    /\ req[r].manifestUrl = req[p].manifestUrl
    /\ IsSome(req[r].manifestUrl)
    /\ fetchCount[req[r].manifestUrl[1]] = 2
    /\ req[r].download = Some([status |-> 200, data |-> "weave-daemonset"])
    /\ req[p].download = Some([status |-> 200, data |-> "weave-daemonset"])
    /\ cacheMap[req[r].manifestUrl[1]] = Some("weave-daemonset")
    /\ req[r].params = <<>>
    /\ req[p].params = << << <<"env.", "WEAVE_MTU">>, "1337" >> >>
    /\ req[r].res = Alone(<<>>, "weave-daemonset")
    /\ req[p].res = Alone(req[p].params, "weave-daemonset")
    /\ req[r].res # req[p].res

\* request r's state changed in this step
Stepped(r) == req'[r] # req[r]

\* C20: requests share no mutation state: the cache holds only raw text as
\* retrieved, a request is handed the raw text of its source, and its output
\* is the one its own parameters give on that text, whatever other requests
\* ran before it or interleave with it; a step of one request changes no
\* other request, and no option of any request shows in the cache.
C20_NoSharedMutation ==
  [][ \A r \in Reqs :
        Stepped(r) =>
          /\ \A p \in Reqs : p # r => req'[p] = req[p]
          /\ \A u \in ManifestUrls :
               cacheMap'[u] # cacheMap[u] =>
                 /\ req[r].manifestUrl = Some(u)
                 /\ cacheMap'[u] \in { Some(t) : t \in UpstreamTexts }
                 /\ cacheMap'[u] = Some(req'[r].download[1].data)
          /\ IsSome(req'[r].handed) =>
               /\ \/ /\ IsSome(req'[r].download)
                     /\ req'[r].handed = Some(req'[r].download[1].data)
                  \/ /\ ~IsSome(req'[r].download)
                     /\ req'[r].handed = cacheMap[req'[r].manifestUrl[1]]
               /\ req'[r].res = Alone(req'[r].params, req'[r].handed[1])
    ]_vars

\* a request with an option filled the cache, and the next request for that
\* source, without options, was served from the cache as when alone: the
\* option of the first shows neither in the cache nor in the second's output
C20_Witness ==
  \E r, p \in Reqs :
    /\ r < p
    /\ req[r].pc = "done" /\ req[p].pc = "done"
    /\ req[r].params = << << <<"env.", "WEAVE_MTU">>, "1337" >> >>
    /\ req[r].download = Some([status |-> 200, data |-> "weave-daemonset"])
    /\ req[p].params = <<>>
    /\ req[p].manifestUrl = req[r].manifestUrl
    /\ req[p].download = None
    /\ req[p].handed = Some("weave-daemonset")
    /\ cacheMap[req[r].manifestUrl[1]] = Some("weave-daemonset")
    /\ req[p].res = Alone(<<>>, "weave-daemonset")
    /\ req[p].res # req[r].res

\* the retrieval of request r failed in this step
Failed(r) ==
  /\ req[r].pc = "fetching"
  /\ req'[r].pc = "raised"
  /\ ~IsSome(req'[r].download)

\* the retrieval of request r has failed
HasFailed(q) ==
  /\ q.pc \in {"raised", "crashed"}
  /\ IsSome(q.manifestUrl)
  /\ ~IsSome(q.download)
  /\ ~IsSome(q.handed)

\* C21: a network failure during the retrieval is fatal for its request only:
\* the failing step writes nothing to the cache, starts no other retrieval
\* and changes no other request; after it the process still runs, so that the
\* other requests, in flight or later, proceed; and a later request for the
\* same source, the cache having no text for it, retrieves again.
C21_FailureOneRequestOnly ==
  [][ \A r \in Reqs :
        /\ Failed(r) =>
             /\ cacheMap' = cacheMap
             /\ fetchCount' = fetchCount
             /\ \A p \in Reqs : p # r => req'[p] = req[p]
        /\ HasFailed(req'[r]) =>
             /\ \A p \in Reqs : req'[p].pc # "crashed"
             /\ req'[r].res = NoResponse
        /\ HasFailed(req[r]) =>
             \A p \in Reqs :
               ( /\ Received(p)
                 /\ req'[p].manifestUrl = req[r].manifestUrl
                 /\ ~CacheHit(cacheMap, req[r].manifestUrl[1]) )
               => /\ req'[p].pc = "fetching"
                  /\ fetchCount'[req[r].manifestUrl[1]] = fetchCount[req[r].manifestUrl[1]] + 1
    ]_vars

\* the target of a valid text, as parsed
TargetOf(manifest) ==
  yamlLoadAll(manifest).docs[1].items[1].elems[Locate(yamlLoadAll(manifest)).idx]

\* C22: there is no partial output.  Whenever processManifest returned an
\* error result, the text failed the validation, the result is the one the
\* text gives without any option (no option was applied) and carries the
\* message only, never a document; a success result carries the first
\* document of the text with the target as all the options of the request,
\* applied in order, leave it.
C22_NoPartialOutput ==
  \A r \in Reqs :
    (req[r].pc = "done" /\ IsSome(req[r].handed)) =>
      LET text == req[r].handed[1]
          body == req[r].res.body
      IN  IF req[r].res.status = "error"
          THEN /\ ~Valid(text)
               /\ req[r].res = Respond(processManifest(text, <<>>))
               /\ body.kind = "message"
               /\ body.doc = None
          ELSE /\ Valid(text)
               /\ ~processOptions(req[r].params, Ok(TargetOf(text))).raised
               /\ body.kind = "yaml"
               /\ body.doc =
                    Some([yamlLoadAll(text).docs[1] EXCEPT
                            !.items[1].elems[Locate(yamlLoadAll(text)).idx] =
                              processOptions(req[r].params, Ok(TargetOf(text))).ds])

\* one request with two options got the document with both applied, another
\* request with an option got the message only, its text being malformed
C22_Witness ==
  \E r, p \in Reqs :
    /\ req[r].pc = "done" /\ req[p].pc = "done"
    /\ req[r].handed = Some("weave-daemonset")
    /\ req[r].params = << << <<"version">>, "2.8.1" >>, << <<"env.", "WEAVE_MTU">>, "1337" >> >>
    /\ req[r].res.body.kind = "yaml"
    /\ LET ds == req[r].res.body.doc[1].items[1].elems[2]
       IN  /\ ds.podSpec[1].containers[1][1].image = Some(<<"weaveworks/weave-kube", ":", "2.8.1">>)
           /\ EnvNamed(ds, "WEAVE_MTU") # {}
    /\ req[p].handed = Some("{{malformed")
    /\ req[p].params # <<>>
    /\ req[p].res.body = Message("Could not read yaml from manifest")

\* the env-var name an option sets in the code, "" when it sets none
SetsName(opt) ==
  IF MatchPrefix(opt[1], "env.") # 0
  THEN IF Includes(allowedEnvVars, Rest(opt[1], MatchPrefix(opt[1], "env.")))
       THEN Rest(opt[1], MatchPrefix(opt[1], "env."))[1]
       ELSE ""
  ELSE IF MatchPrefix(opt[1], "seLinuxOptions.") # 0 THEN ""
  ELSE IF opt = DisableNpc THEN "EXPECT_NPC"
  ELSE IF IsSecretOption(opt) /\ opt[2] # "" THEN "WEAVE_PASSWORD"
  ELSE ""

\* two options with different keys that do not set the same env-var name
DifferentKeys(a, b) ==
  /\ a[1] # b[1]
  /\ SetsName(a) = "" \/ SetsName(a) # SetsName(b)

\* the two targets are the same but for the order of the env entries of the
\* first container
SameButEnvOrder(d1, d2) ==
  /\ SetFirstEnv(d1, <<>>) = SetFirstEnv(d2, <<>>)
  /\ Len(FirstEnv(d1)[1]) = Len(FirstEnv(d2)[1])
  /\ { FirstEnv(d1)[1][i] : i \in DOMAIN FirstEnv(d1)[1] } =
       { FirstEnv(d2)[1][i] : i \in DOMAIN FirstEnv(d2)[1] }

\* the last two options processed, in the other order, on the target the
\* options before them left
Swapped ==
  LET n == Len(mut.params)
  IN  processOptions(<< mut.params[n], mut.params[n - 1] >>,
                     processOptions(SubSeq(mut.params, 1, n - 2), Ok(TargetOf(mut.manifest))))

\* the last two options are a version option and disable-npc=true
VersionWithDisable ==
  LET n == Len(mut.params)
  IN  \/ mut.params[n - 1][1] = <<"version">> /\ mut.params[n] = DisableNpc
      \/ mut.params[n - 1] = DisableNpc /\ mut.params[n][1] = <<"version">>

Blanked(ds) ==
  LET ps == ds.podSpec[1]
      ics == IF IsSome(ps.initContainers) /\ Len(ps.initContainers[1]) >= 1
             THEN Some([ps.initContainers[1] EXCEPT ![1].image = None])
             ELSE ps.initContainers
      cs == [i \in DOMAIN ps.containers[1] |->
               IF i <= 2 THEN [ps.containers[1][i] EXCEPT !.image = None]
               ELSE ps.containers[1][i]]
  IN  [ds EXCEPT !.podSpec[1].initContainers = ics, !.podSpec[1].containers = Some(cs)]

\* the containers without the first one named weave-npc
WithoutNpc(cs) ==
  IF \E i \in DOMAIN cs : cs[i].name = "weave-npc"
  THEN LET k == CHOOSE i \in DOMAIN cs :
                  /\ cs[i].name = "weave-npc"
                  /\ \A j \in DOMAIN cs : cs[j].name = "weave-npc" => i <= j
       IN  SubSeq(cs, 1, k - 1) \o SubSeq(cs, k + 1, Len(cs))
  ELSE cs

C25_OnlyExactlyTrue ==
  [][ (Turned /\ Last[1] = <<"disable-npc">> /\ Last[2] # "true") =>
        /\ ~mut'.work.raised
        /\ mut'.work.ds = mut.work.ds
        /\ FirstEnv(mut'.work.ds) = FirstEnv(mut.work.ds)
        /\ ContainerNames(mut'.work.ds) = ContainerNames(mut.work.ds)
    ]_vars

\* disable-npc=TRUE and disable-npc=1 were processed on the released target,
\* which still has the container weave-npc and no entry EXPECT_NPC
C25_Witness ==
  /\ mut.pc = "loop"
  /\ mut.manifest = "weave-daemonset"
  /\ mut.params = << << <<"disable-npc">>, "TRUE" >>, << <<"disable-npc">>, "1" >> >>
  /\ "weave-npc" \in ContainerNames(mut.work.ds)
  /\ EnvNamed(mut.work.ds, "EXPECT_NPC") = {}
  /\ mut.work.ds = WeaveNet

\* the key begins with the prefix
BeginsWith(key, prefix) == Len(key) >= 1 /\ key[1] = prefix

\* C26: each option falls in exactly one category, the first that matches: an
\* environment-variable option only when its key begins with env. (the rest
\* of the key being the name), a security-context option only when its key
\* begins with seLinuxOptions., and otherwise the key is looked up whole among
\* version, disable-npc and password-secret, any other key being ignored with
\* the target unchanged.
C26_OneCategory ==
  [][ Turned =>
        LET key == Last[1]
            ds == mut.work.ds
        IN  mut'.work =
              IF BeginsWith(key, "env.") THEN processEnvVar(Rest(key, 1), Last[2], ds)
              ELSE IF BeginsWith(key, "seLinuxOptions.")
                   THEN processSELinuxOption(Rest(key, 1), Last[2], ds)
              ELSE IF key = <<"version">> THEN processVersion(key, Last[2], ds)
              ELSE IF key = <<"disable-npc">> THEN processDisableNPC(key, Last[2], ds)
              ELSE IF key = <<"password-secret">> THEN processPasswordSecret(key, Last[2], ds)
              ELSE Ok(ds)
    ]_vars

====
